---- MODULE Spec2Model ----
(***************************************************************************)
(* Model of the RabbitMQ client (services/*/src/lib/rabbitmq.ts) and of    *)
(* the email worker built on it (email service index.ts,                   *)
(* startEmailConsumer, and the POST /emails/queue route).                  *)
(*                                                                         *)
(* One process is modelled: it calls init() once at start, then            *)
(* startEmailConsumer(), then serves the /queue route.  The broker, the    *)
(* record store and the mail transport are the environment.                *)
(*                                                                         *)
(* Spec        the email service: start(), one job, broker faults          *)
(* SpecWorker  the same on a connection that stays, with redeliveries      *)
(* SpecMissing the same with payloads that name no record                  *)
(* SpecRetry   the worker with a broker that delivers every message once   *)
(* SpecApi     the rabbitmq object under the calls of its callers          *)
(* SpecSupFair the connection sequences alone, with fair scheduling        *)
(***************************************************************************)
EXTENDS Integers, Sequences, FiniteSets, TLC

\* ------------------------------------------------------------------ bounds
MaxConns == 2      \* connections the broker ever accepts in one run
MaxMsgs == 3       \* publish calls (accepted or dropped) in one run
MaxForeign == 1    \* messages other clients put on email_queue in one run

\* ------------------------------------------------------- program constants
MAX_RETRIES == 5
RETRY_DELAY == 2000
RECONNECT_DELAY == 1000
MaxSendAttempts == 3

ConnIds == 1..MaxConns
NoConn == 0

VARIABLES
  \* rabbitmq object (lib/rabbitmq.ts:10-14)
  isConnected, retryCount, conn, channel,
  \* the running connectWithRetry() call
  initRes,      \* "none" | "pending" | "true" | "false": init() as seen by start()
  seqKind,      \* "none" | "init" | "reconnect": who started the running sequence
  seqPc,        \* "idle" | "cooldown" | "connect" | "channel" | "backoff" | "done"
  seqResult,    \* value returned by the finished connectWithRetry()
  seqAttempts,  \* history: amqp.connect calls made by this sequence
  seqFails,     \* history: attempts of this sequence that ended in the catch
  seqEntered,   \* history: times this sequence set isConnected = true
  delay,        \* ms of the delay() the sequence is waiting for, 0 when none
  \* broker
  brokerUp,     \* the broker accepts new connections
  connState,    \* per connection: "unused" | "open" | "closed"
  nConn,        \* connections accepted so far
  handlers,     \* connections that carry the error/close handlers
  chanOpen,     \* channels (named after their connection) that are open
  \* gateway and worker
  consumerState,  \* "none" | "registered" | "failed": outcome of startEmailConsumer
  consumerChan,   \* channel the consume callback is registered on
  queue,          \* email_queue at the broker: payloads, oldest first
  inflight,       \* handler invocations that have not returned, oldest first
  rec,            \* the job record of the store
  route,          \* "none" | "202" | "500": answer of POST /queue
  timers,         \* pending setTimeout re-publishes
  sendLog,        \* history: outcomes of the send operations of the job
  nSched,         \* history: re-publishes scheduled so far
  dbFaulted,      \* history: some store operation raised
  nPub,           \* history: messages offered to email_queue by anyone
  nForeign,       \* history: per payload, messages put on the queue by others
  lastPub,        \* history: how the last rabbitmq.publish call went
  acks, nacks,    \* history: channel.ack / channel.nack calls that went out
  requeued,       \* history: nacks that asked for a requeue
  crashed,        \* an unhandled rejection reached process.exit(1)
  \* callers of the gateway
  lastOp          \* history: the last healthCheck / assertQueue / publish / close call

supVars == <<isConnected, retryCount, conn, channel, initRes, seqKind, seqPc, seqResult,
             seqAttempts, seqFails, seqEntered, delay>>
brokerVars == <<brokerUp, connState, nConn, handlers, chanOpen>>
workVars == <<consumerState, consumerChan, queue, inflight, rec, route, timers,
              sendLog, nSched, dbFaulted, nPub, nForeign, lastPub, acks, nacks,
              requeued, crashed>>
apiVars == <<lastOp>>
vars == <<supVars, brokerVars, workVars, apiVars>>

Payloads == {"job", "malformed", "null"}
NoRec == [exists |-> FALSE, status |-> "queued", retryCount |-> 0, sentAt |-> FALSE]
NoOp == [op |-> "none", connected |-> FALSE, io |-> FALSE, res |-> FALSE, raised |-> FALSE]

Init ==
  /\ isConnected = FALSE /\ retryCount = 0 /\ conn = NoConn /\ channel = NoConn
  /\ initRes = "none" /\ seqKind = "none" /\ seqPc = "idle" /\ seqResult = FALSE
  /\ seqAttempts = 0 /\ seqFails = 0 /\ seqEntered = 0 /\ delay = 0
  /\ brokerUp \in BOOLEAN
  /\ connState = [c \in ConnIds |-> "unused"] /\ nConn = 0
  /\ handlers = {} /\ chanOpen = {}
  /\ consumerState = "none" /\ consumerChan = NoConn
  /\ queue = <<>> /\ inflight = <<>>
  /\ rec = NoRec /\ route = "none" /\ timers = 0
  /\ sendLog = <<>> /\ nSched = 0 /\ dbFaulted = FALSE /\ nPub = 0
  /\ nForeign = [p \in Payloads |-> 0]
  /\ lastPub = "none" /\ acks = 0 /\ nacks = 0 /\ requeued = 0 /\ crashed = FALSE
  /\ lastOp = NoOp

\* ---------------------------------------------------------------- broker
\* The process runs, and no connectWithRetry call is about to resume its
\* caller in the current turn.
Running == ~crashed /\ seqPc # "done"

\* Whether the broker would accept a connection is observed by amqp.connect
\* only: its changes are taken during an attempt's wait and connect, or
\* while no sequence runs and the supervisor is not connected.
Observed == seqPc \in {"backoff", "connect"} \/ (seqPc = "idle" /\ ~isConnected)

BrokerUp ==
  /\ Running /\ Observed /\ ~brokerUp
  /\ brokerUp' = TRUE
  /\ UNCHANGED <<supVars, connState, nConn, handlers, chanOpen, workVars>>
  /\ UNCHANGED apiVars

\* The broker starts to refuse connections.  Once the consumer has been
\* started an outage shows as a lost connection only: the gateway and the
\* worker read isConnected and channel, which keep their values from the loss
\* to the end of the reconnect sequence, however many attempts it takes.
BrokerDown ==
  /\ Running /\ Observed /\ brokerUp /\ consumerState = "none"
  /\ brokerUp' = FALSE
  /\ UNCHANGED <<supVars, connState, nConn, handlers, chanOpen, workVars>>
  /\ UNCHANGED apiVars

\* ------------------------------------------------------- connectWithRetry
\* while (this.retryCount < MAX_RETRIES)
LoopCond(rc) == rc < MAX_RETRIES

\* Variants of Exhausted: giving up one failure early, one check late
Exhausted_early(rc) == rc >= MAX_RETRIES - 1
Exhausted_late(rc) == rc > MAX_RETRIES

\* if (this.retryCount >= MAX_RETRIES) return false
Exhausted(rc) == rc >= MAX_RETRIES

\* Top of the while loop: either the next amqp.connect is issued or the
\* function falls through to the final "return false".
EnterLoop(kind) ==
  /\ seqKind' = kind
  /\ delay' = 0
  /\ IF LoopCond(retryCount')
       THEN /\ seqPc' = "connect"
            /\ seqAttempts' = seqAttempts + 1
            /\ UNCHANGED seqResult
       ELSE /\ seqPc' = "done"
            /\ seqResult' = FALSE
            /\ UNCHANGED seqAttempts

\* Variant of BackoffDelay: the wait doubles with every failure
BackoffDelay_exponential(failures) == RETRY_DELAY * 2 ^ (failures - 1)

\* await this.delay(RETRY_DELAY): the wait after the failures-th failure
BackoffDelay(failures) == RETRY_DELAY

\* catch block of one attempt
AttemptFailed ==
  /\ retryCount' = retryCount + 1
  /\ seqFails' = seqFails + 1
  /\ IF Exhausted(retryCount')
       THEN seqPc' = "done" /\ seqResult' = FALSE /\ delay' = 0
       ELSE seqPc' = "backoff" /\ delay' = BackoffDelay(retryCount') /\ UNCHANGED seqResult
  /\ UNCHANGED <<isConnected, channel, initRes, seqKind, seqAttempts, seqEntered,
                 handlers, chanOpen>>

\* init(): the process calls it once, first thing in start()
Init_call ==
  /\ Running /\ initRes = "none"
  /\ initRes' = "pending"
  /\ UNCHANGED retryCount
  /\ EnterLoop("init")
  /\ UNCHANGED <<isConnected, conn, channel, seqFails, seqEntered,
                 brokerVars, workVars>>
  /\ UNCHANGED apiVars

\* await amqp.connect(RABBITMQ_URL) settles
ConnectSettles ==
  /\ Running /\ seqPc = "connect"
  /\ IF brokerUp
       THEN /\ nConn' = nConn + 1
            /\ conn' = nConn + 1
            /\ connState' = [connState EXCEPT ![nConn + 1] = "open"]
            /\ seqPc' = "channel"
            /\ UNCHANGED <<isConnected, retryCount, channel, initRes, seqKind,
                           seqResult, seqAttempts, seqFails, seqEntered, delay,
                           handlers, chanOpen>>
       ELSE /\ AttemptFailed
            /\ UNCHANGED <<conn, connState, nConn>>
  /\ UNCHANGED <<brokerUp, workVars>>
  /\ UNCHANGED apiVars

\* await this.conn.createChannel() settles; on success the handlers are
\* registered and the flags set in the same turn
ChannelSettles ==
  /\ Running /\ seqPc = "channel"
  /\ IF connState[conn] = "open"
       THEN /\ channel' = conn
            /\ chanOpen' = chanOpen \cup {conn}
            /\ handlers' = handlers \cup {conn}
            /\ isConnected' = TRUE
            /\ retryCount' = 0
            /\ seqPc' = "done"
            /\ seqResult' = TRUE
            /\ seqEntered' = seqEntered + 1
            /\ UNCHANGED <<initRes, seqKind, seqAttempts, seqFails, delay>>
       ELSE AttemptFailed
  /\ UNCHANGED <<conn, brokerUp, connState, nConn, workVars>>
  /\ UNCHANGED apiVars

\* await this.delay(RETRY_DELAY) settles, back to the loop condition
BackoffDone ==
  /\ Running /\ seqPc = "backoff"
  /\ UNCHANGED <<retryCount, initRes>>
  /\ EnterLoop(seqKind)
  /\ UNCHANGED <<isConnected, conn, channel, seqFails, seqEntered,
                 brokerVars, workVars>>
  /\ UNCHANGED apiVars

\* reconnect(): await this.delay(1000) settles, connectWithRetry() starts
CooldownDone ==
  /\ Running /\ seqPc = "cooldown"
  /\ UNCHANGED <<retryCount, initRes>>
  /\ EnterLoop(seqKind)
  /\ UNCHANGED <<isConnected, conn, channel, seqFails, seqEntered,
                 brokerVars, workVars>>
  /\ UNCHANGED apiVars

\* connectWithRetry returns: in the same turn its caller resumes (start()
\* behind await rabbitmq.init(), or reconnect(), whose caller ignores it).
SeqReturns ==
  /\ ~crashed /\ seqPc = "done"
  /\ initRes' = IF seqKind = "init" THEN (IF seqResult THEN "true" ELSE "false")
                                    ELSE initRes
  /\ seqKind' = "none" /\ seqPc' = "idle" /\ seqResult' = FALSE
  /\ seqAttempts' = 0 /\ seqFails' = 0 /\ seqEntered' = 0
  /\ UNCHANGED <<isConnected, retryCount, conn, channel, delay, brokerVars, workVars>>
  /\ UNCHANGED apiVars

\* Variant of ConnectionLost: the close handler forgets reconnect()
ConnectionLost_noReconnect(c) ==
  /\ Running /\ connState[c] = "open" /\ nConn < MaxConns
  /\ c \in handlers => seqPc = "idle"
  /\ connState' = [connState EXCEPT ![c] = "closed"]
  /\ chanOpen' = chanOpen \ {c}
  /\ isConnected' = IF c \in handlers THEN FALSE ELSE isConnected
  /\ UNCHANGED <<retryCount, seqKind, seqPc, seqResult, seqAttempts, seqFails,
                 seqEntered, delay>>
  /\ UNCHANGED <<conn, channel, initRes, brokerUp, nConn, handlers, workVars>>
  /\ UNCHANGED apiVars

\* The broker (or the network) ends connection c.  amqplib emits "error"
\* (when the end was not clean) and then "close" in the same turn; both
\* handlers exist only once createChannel has succeeded on c.
\* "error": isConnected = false.  "close": isConnected = false; reconnect(),
\* which resets retryCount and starts the cool-down.  One connectWithRetry
\* call at a time is modelled: a connection that carries the handlers is
\* lost while no sequence runs.
ConnectionLost(c) ==
  /\ Running /\ connState[c] = "open" /\ nConn < MaxConns
  /\ c \in handlers => seqPc = "idle"
  /\ connState' = [connState EXCEPT ![c] = "closed"]
  /\ chanOpen' = chanOpen \ {c}
  /\ IF c \in handlers
       THEN /\ isConnected' = FALSE
            /\ retryCount' = 0
            /\ seqKind' = "reconnect"
            /\ seqPc' = "cooldown"
            /\ delay' = RECONNECT_DELAY
            /\ seqAttempts' = 0 /\ seqFails' = 0 /\ seqEntered' = 0
            /\ UNCHANGED seqResult
       ELSE UNCHANGED <<isConnected, retryCount, seqKind, seqPc, seqResult,
                        seqAttempts, seqFails, seqEntered, delay>>
  /\ UNCHANGED <<conn, channel, initRes, brokerUp, nConn, handlers, workVars>>
  /\ UNCHANGED apiVars


\* ------------------------------------------------------------ Queue Gateway
\* if (!this.isConnected || !this.channel)
NotConnected == ~isConnected \/ channel = NoConn

\* Variant of publish: a message offered while not connected is handed to
\* the broker anyway
publish_buffering(full) ==
  IF channel \in chanOpen \/ NotConnected
    THEN (IF full THEN "full" ELSE "sent")
    ELSE "threw"

\* publish(queue, content): how the call went.
\*   "refused": the guard returned false, the channel was not called
\*   "sent":    sendToQueue returned true
\*   "full":    sendToQueue took the message and returned false (write
\*              buffer full)
\*   "threw":   sendToQueue threw on a closed channel; publish returns false
publish(full) ==
  IF NotConnected
    THEN "refused"
    ELSE IF channel \in chanOpen
           THEN (IF full THEN "full" ELSE "sent")
           ELSE "threw"

\* email_queue after a publish call that went as p
Enqueue(p, payload) == IF p \in {"sent", "full"} THEN Append(queue, payload) ELSE queue

\* Variant of NackRequeue: the rejected message goes back to the queue
NackRequeue_true == TRUE

\* channel.nack(msg, false, false): third argument
NackRequeue == FALSE

\* Variant of Settle: the message is acknowledged whatever the handler did
Settle_acksAnyway(wantAck) ==
  IF channel \notin chanOpen
    THEN /\ crashed' = TRUE
         /\ UNCHANGED <<chanOpen, acks, nacks, requeued>>
    ELSE /\ acks' = acks + 1
         /\ chanOpen' = IF channel = consumerChan THEN chanOpen
                                                  ELSE chanOpen \ {channel}
         /\ UNCHANGED <<nacks, requeued, crashed>>

\* End of the consume callback: this.channel.ack(msg) after the handler
\* resolved (wantAck), else the catch block's
\* this.channel.nack(msg, false, false).  Both throw on a closed channel: a
\* throwing ack lands in the catch block, whose nack throws too, and the
\* rejection of the callback is unhandled.  On an open channel other than the
\* one that delivered the message the broker answers the unknown delivery tag
\* by closing that channel.
Settle(wantAck) ==
  IF channel \notin chanOpen
    THEN /\ crashed' = TRUE
         /\ UNCHANGED <<chanOpen, acks, nacks, requeued>>
    ELSE /\ acks' = IF wantAck THEN acks + 1 ELSE acks
         /\ nacks' = IF wantAck THEN nacks ELSE nacks + 1
         /\ requeued' = IF ~wantAck /\ NackRequeue THEN requeued + 1 ELSE requeued
         /\ chanOpen' = IF channel = consumerChan THEN chanOpen
                                                  ELSE chanOpen \ {channel}
         /\ UNCHANGED crashed

Remove(seq, i) == [k \in 1..(Len(seq) - 1) |-> IF k < i THEN seq[k] ELSE seq[k + 1]]

\* startEmailConsumer() -> rabbitmq.consume("email_queue", handler), called
\* once by start() after init() has returned
StartConsumer ==
  /\ Running /\ consumerState = "none"
  /\ initRes \in {"true", "false"}
  /\ IF ~NotConnected /\ channel \in chanOpen
       THEN consumerState' = "registered" /\ consumerChan' = channel
       ELSE consumerState' = "failed" /\ UNCHANGED consumerChan
  /\ UNCHANGED <<supVars, brokerVars, queue, inflight, rec, route, timers, sendLog,
                 nSched, dbFaulted, nPub, nForeign, lastPub, acks, nacks, requeued,
                 crashed>>
  /\ UNCHANGED apiVars

\* Variant of QueueRoute: the result of publish is not looked at
QueueRoute_ignoresResult ==
  /\ Running /\ consumerState # "none" /\ route = "none"
  /\ nPub < MaxMsgs
  /\ \E full \in BOOLEAN, createFails \in BOOLEAN, saveFails \in BOOLEAN :
       /\ createFails => ~saveFails
       /\ IF createFails
            THEN /\ route' = "500" /\ dbFaulted' = TRUE
                 /\ UNCHANGED <<queue, rec, nPub, lastPub>>
            ELSE LET p == publish(full) IN
                 /\ lastPub' = p
                 /\ queue' = Enqueue(p, "job")
                 /\ nPub' = nPub + 1
                 /\ IF TRUE
                      THEN /\ ~saveFails
                           /\ rec' = [NoRec EXCEPT !.exists = TRUE]
                           /\ route' = "202"
                           /\ UNCHANGED dbFaulted
                      ELSE /\ route' = "500"
                           /\ rec' = [NoRec EXCEPT !.exists = TRUE,
                                        !.status = IF saveFails THEN "queued" ELSE "failed"]
                           /\ dbFaulted' = (dbFaulted \/ saveFails)
  /\ UNCHANGED <<supVars, brokerVars, consumerState, consumerChan, inflight, timers,
                 sendLog, nSched, nForeign, acks, nacks, requeued, crashed>>
  /\ UNCHANGED apiVars

\* POST /emails/queue: create the record, publish, on failure mark the
\* record failed and answer 500, else answer 202
QueueRoute ==
  /\ Running /\ consumerState # "none" /\ route = "none"
  /\ nPub < MaxMsgs
  /\ \E full \in BOOLEAN, createFails \in BOOLEAN, saveFails \in BOOLEAN :
       /\ createFails => ~saveFails
       /\ IF createFails
            THEN /\ route' = "500" /\ dbFaulted' = TRUE
                 /\ UNCHANGED <<queue, rec, nPub, lastPub>>
            ELSE LET p == publish(full) IN
                 /\ lastPub' = p
                 /\ queue' = Enqueue(p, "job")
                 /\ nPub' = nPub + 1
                 /\ IF p = "sent"
                      THEN /\ ~saveFails
                           /\ rec' = [NoRec EXCEPT !.exists = TRUE]
                           /\ route' = "202"
                           /\ UNCHANGED dbFaulted
                      ELSE /\ route' = "500"
                           /\ rec' = [NoRec EXCEPT !.exists = TRUE,
                                        !.status = IF saveFails THEN "queued" ELSE "failed"]
                           /\ dbFaulted' = (dbFaulted \/ saveFails)
  /\ UNCHANGED <<supVars, brokerVars, consumerState, consumerChan, inflight, timers,
                 sendLog, nSched, nForeign, acks, nacks, requeued, crashed>>
  /\ UNCHANGED apiVars

\* Another client of the broker puts a message on email_queue: text that is
\* not JSON, the JSON value null, or (at-least-once duplication) a second
\* copy of the job's payload, which the broker has taken before.
ForeignPublish(payload) ==
  /\ Running /\ nPub < MaxMsgs
  /\ nForeign["job"] + nForeign["malformed"] + nForeign["null"] < MaxForeign
  /\ payload = "job" => rec.exists /\ (Len(sendLog) > 0 \/ Len(inflight) > 0
                                         \/ \E k \in 1..Len(queue) : queue[k] = "job")
  /\ queue' = Append(queue, payload)
  /\ nPub' = nPub + 1
  /\ nForeign' = [nForeign EXCEPT ![payload] = @ + 1]
  /\ UNCHANGED <<supVars, brokerVars, consumerState, consumerChan, inflight, rec,
                 route, timers, sendLog, nSched, dbFaulted, lastPub, acks, nacks,
                 requeued, crashed>>
  /\ UNCHANGED apiVars

\* At-least-once delivery: the broker hands out once more a job message it
\* has delivered before
Redeliver ==
  /\ Running /\ consumerState = "registered" /\ consumerChan \in chanOpen
  /\ rec.exists /\ Len(sendLog) > 0
  /\ nForeign["job"] + nForeign["malformed"] + nForeign["null"] < MaxForeign
  /\ queue' = Append(queue, "job")
  /\ nForeign' = [nForeign EXCEPT !["job"] = @ + 1]
  /\ UNCHANGED <<supVars, brokerVars, consumerState, consumerChan, inflight, rec,
                 route, timers, sendLog, nSched, dbFaulted, nPub, lastPub, acks, nacks,
                 requeued, crashed, apiVars>>

\* Another client puts on email_queue a job payload whose emailId names no
\* record of the store.  The model holds one record, the job's: the payload
\* is published once the route has answered without creating it, so that no
\* record exists while the message is in the queue or in a handler.
OrphanPublish ==
  /\ Running /\ nPub < MaxMsgs
  /\ nForeign["job"] + nForeign["malformed"] + nForeign["null"] < MaxForeign
  /\ ~rec.exists /\ route = "500"
  /\ queue' = Append(queue, "job")
  /\ nPub' = nPub + 1
  /\ nForeign' = [nForeign EXCEPT !["job"] = @ + 1]
  /\ UNCHANGED <<supVars, brokerVars, consumerState, consumerChan, inflight, rec,
                 route, timers, sendLog, nSched, dbFaulted, lastPub, acks, nacks,
                 requeued, crashed, apiVars>>

NewHandler == [pc |-> "find", lst |-> "queued", lrc |-> 0, lok |-> FALSE, sched |-> FALSE]

\* The consume callback runs for the oldest message of the queue, up to the
\* first await of the handler:
\*   JSON.parse throws                 -> nack
\*   payload null: the handler's destructuring throws, and so does the
\*     catch block's payload.emailId   -> handler rejects -> nack
\*   job payload                       -> EmailModel.findById is in flight
Deliver ==
  /\ Running /\ consumerState = "registered" /\ consumerChan \in chanOpen
  /\ Len(queue) > 0
  /\ queue' = Tail(queue)
  /\ CASE Head(queue) = "malformed" ->
            Settle(FALSE) /\ UNCHANGED inflight
       [] Head(queue) = "null" ->
            Settle(FALSE) /\ UNCHANGED inflight
       [] OTHER ->
            /\ inflight' = Append(inflight, NewHandler)
            /\ UNCHANGED <<chanOpen, crashed, acks, nacks, requeued>>
  /\ UNCHANGED <<supVars, brokerUp, connState, nConn, handlers, consumerState,
                 consumerChan, rec, route, timers, sendLog, nSched, dbFaulted,
                 nPub, nForeign, lastPub>>
  /\ UNCHANGED apiVars

\* ---------------------------------------------------------- Delivery Worker
\* Variant of ShouldRequeue: off by one
ShouldRequeue_le(rc) == rc <= MaxSendAttempts

\* if (email.retryCount < 3) setTimeout(...)
ShouldRequeue(rc) == rc < MaxSendAttempts

\* if (email.status === "sent") return
AlreadySent(r) == r.status = "sent"

\* Variant of FindSettles: no test of the lookup's result, a missing record
\* is dispatched like a stored one
FindSettles_noNullTest(i) ==
  /\ Running /\ i \in 1..Len(inflight) /\ inflight[i].pc = "find"
  /\ \/ /\ dbFaulted' = TRUE
        /\ inflight' = [inflight EXCEPT ![i].pc = "update"]
        /\ UNCHANGED <<chanOpen, crashed, acks, nacks, requeued>>
     \/ /\ rec.exists /\ AlreadySent(rec)
        /\ inflight' = Remove(inflight, i)
        /\ Settle(TRUE)
        /\ UNCHANGED dbFaulted
     \/ /\ ~AlreadySent(rec)
        /\ inflight' = [inflight EXCEPT ![i] = [@ EXCEPT !.pc = "send", !.lst = rec.status,
                                                         !.lrc = rec.retryCount + 1]]
        /\ UNCHANGED <<chanOpen, crashed, acks, nacks, requeued, dbFaulted>>
  /\ UNCHANGED <<supVars, brokerUp, connState, nConn, handlers, consumerState,
                 consumerChan, queue, rec, route, timers, sendLog, nSched,
                 nPub, nForeign, lastPub>>
  /\ UNCHANGED apiVars

\* const email = await EmailModel.findById(emailId) settles
FindSettles(i) ==
  /\ Running /\ i \in 1..Len(inflight) /\ inflight[i].pc = "find"
  /\ \/ /\ dbFaulted' = TRUE     \* raises: catch -> findByIdAndUpdate
        /\ inflight' = [inflight EXCEPT ![i].pc = "update"]
        /\ UNCHANGED <<chanOpen, crashed, acks, nacks, requeued>>
     \/ /\ ~rec.exists \/ AlreadySent(rec)     \* not found / already sent: return
        /\ inflight' = Remove(inflight, i)
        /\ Settle(TRUE)
        /\ UNCHANGED dbFaulted
     \/ /\ rec.exists /\ ~AlreadySent(rec)     \* retryCount += 1; send starts
        /\ inflight' = [inflight EXCEPT ![i] = [@ EXCEPT !.pc = "send", !.lst = rec.status,
                                                         !.lrc = rec.retryCount + 1]]
        /\ UNCHANGED <<chanOpen, crashed, acks, nacks, requeued, dbFaulted>>
  /\ UNCHANGED <<supVars, brokerUp, connState, nConn, handlers, consumerState,
                 consumerChan, queue, rec, route, timers, sendLog, nSched,
                 nPub, nForeign, lastPub>>
  /\ UNCHANGED apiVars

\* success = await emailService.send...() settles; the document is updated,
\* the re-publish is scheduled, email.save() starts
SendSettles(i) ==
  /\ Running /\ i \in 1..Len(inflight) /\ inflight[i].pc = "send"
  /\ \E ok \in BOOLEAN :
       LET requeue == ~ok /\ ShouldRequeue(inflight[i].lrc) IN
       /\ sendLog' = Append(sendLog, ok)
       /\ inflight' = [inflight EXCEPT ![i] = [@ EXCEPT !.pc = "save", !.lok = ok,
                                                        !.sched = requeue]]
       /\ IF requeue
            THEN timers' = timers + 1 /\ nSched' = nSched + 1
            ELSE UNCHANGED <<timers, nSched>>
  /\ UNCHANGED <<supVars, brokerVars, consumerState, consumerChan, queue, rec, route,
                 dbFaulted, nPub, nForeign, lastPub, acks, nacks, requeued, crashed>>
  /\ UNCHANGED apiVars

\* Variant of Saved: the incremented retryCount is not persisted
Saved_keepsCount(h) ==
  LET st == IF h.lok THEN "sent" ELSE "failed" IN
  [exists |-> TRUE,
   status |-> IF st # h.lst THEN st ELSE rec.status,
   retryCount |-> rec.retryCount,
   sentAt |-> h.lok \/ rec.sentAt]

\* What email.save() writes: the modified paths only.  retryCount always
\* differs from the value read; status is written when it differs from the
\* status read; sentAt is written on success.
Saved(h) ==
  LET st == IF h.lok THEN "sent" ELSE "failed" IN
  [exists |-> TRUE,
   status |-> IF st # h.lst THEN st ELSE rec.status,
   retryCount |-> h.lrc,
   sentAt |-> h.lok \/ rec.sentAt]

\* await email.save() settles
SaveSettles(i) ==
  /\ Running /\ i \in 1..Len(inflight) /\ inflight[i].pc = "save"
  /\ \/ /\ dbFaulted' = TRUE     \* raises: catch -> findByIdAndUpdate
        /\ inflight' = [inflight EXCEPT ![i].pc = "update"]
        /\ UNCHANGED <<chanOpen, crashed, acks, nacks, requeued, rec>>
     \/ /\ rec' = Saved(inflight[i])
        /\ inflight' = Remove(inflight, i)
        /\ Settle(TRUE)
        /\ UNCHANGED dbFaulted
  /\ UNCHANGED <<supVars, brokerUp, connState, nConn, handlers, consumerState,
                 consumerChan, queue, route, timers, sendLog, nSched,
                 nPub, nForeign, lastPub>>
  /\ UNCHANGED apiVars

\* catch block: await EmailModel.findByIdAndUpdate(emailId,
\*   {status: "failed", $inc: {retryCount: 1}}) settles; its own failure is
\* only logged
UpdateSettles(i) ==
  /\ Running /\ i \in 1..Len(inflight) /\ inflight[i].pc = "update"
  /\ \/ /\ dbFaulted' = TRUE
        /\ UNCHANGED rec
     \/ /\ rec' = IF rec.exists
                    THEN [rec EXCEPT !.status = "failed", !.retryCount = @ + 1]
                    ELSE rec
        /\ UNCHANGED dbFaulted
  /\ inflight' = Remove(inflight, i)
  /\ Settle(TRUE)
  /\ UNCHANGED <<supVars, brokerUp, connState, nConn, handlers, consumerState,
                 consumerChan, queue, route, timers, sendLog, nSched,
                 nPub, nForeign, lastPub>>
  /\ UNCHANGED apiVars

\* Timers whose 5 minutes can be over: the delay outlasts the store
\* operation that was started right after the timer was set.
Ripe == timers - Cardinality({k \in 1..Len(inflight) : inflight[k].sched})

\* setTimeout callback: await rabbitmq.publish("email_queue", payload); the
\* returned value is not looked at
TimerFires ==
  /\ Running /\ Ripe > 0 /\ nPub < MaxMsgs
  /\ \E full \in BOOLEAN :
       LET p == publish(full) IN
       /\ lastPub' = p
       /\ queue' = Enqueue(p, "job")
  /\ timers' = timers - 1
  /\ nPub' = nPub + 1
  /\ UNCHANGED <<supVars, brokerVars, consumerState, consumerChan, inflight, rec,
                 route, sendLog, nSched, dbFaulted, nForeign, acks, nacks, requeued,
                 crashed>>
  /\ UNCHANGED apiVars

\* --------------------------------------------------- callers of the gateway
\* Variant of assertQueue: no try/catch around channel.assertQueue
assertQueue_noCatch(throws) ==
  IF NotConnected
    THEN [op |-> "assertQueue", connected |-> FALSE, io |-> FALSE, res |-> FALSE,
          raised |-> FALSE]
    ELSE [op |-> "assertQueue", connected |-> TRUE, io |-> TRUE, res |-> ~throws,
          raised |-> throws]

\* assertQueue(name): what the call did.  throws: channel.assertQueue
\* rejected (closed channel, or the broker refused the declaration).
assertQueue(throws) ==
  IF NotConnected
    THEN [op |-> "assertQueue", connected |-> FALSE, io |-> FALSE, res |-> FALSE,
          raised |-> FALSE]
    ELSE [op |-> "assertQueue", connected |-> TRUE, io |-> TRUE, res |-> ~throws,
          raised |-> FALSE]

\* The channel after a declaration the broker refused: a channel exception
\* closes the channel, the connection stays.
Declared(called, refused) ==
  IF called /\ refused THEN chanOpen \ {channel} ELSE chanOpen

\* Some caller declares a queue through the gateway
AssertQueueCall ==
  /\ Running /\ initRes \in {"true", "false"}
  /\ \E refused \in BOOLEAN :
       LET r == assertQueue(channel \notin chanOpen \/ refused) IN
       /\ lastOp' = r
       /\ chanOpen' = Declared(r.io, refused)
  /\ UNCHANGED <<supVars, brokerUp, connState, nConn, handlers, workVars>>

\* if (!this.conn || !this.channel) return false
NothingHeld == conn = NoConn \/ channel = NoConn

\* healthCheck(): what the call did.  The guard looks at the objects held,
\* not at isConnected; a rejected channel.assertQueue lands in the catch.
healthCheck(throws) ==
  IF NothingHeld
    THEN [op |-> "healthCheck", connected |-> isConnected, io |-> FALSE,
          res |-> FALSE, raised |-> FALSE]
    ELSE [op |-> "healthCheck", connected |-> isConnected, io |-> TRUE,
          res |-> ~throws /\ isConnected, raised |-> FALSE]

\* GET /health: await rabbitmq.healthCheck(); the catch block sets
\* isConnected = false and starts no sequence
HealthRoute ==
  /\ Running /\ initRes \in {"true", "false"}
  /\ \E refused \in BOOLEAN :
       LET throws == channel \notin chanOpen \/ refused
           r == healthCheck(throws) IN
       /\ lastOp' = r
       /\ chanOpen' = Declared(r.io, refused)
       /\ isConnected' = IF r.io /\ throws THEN FALSE ELSE isConnected
  /\ UNCHANGED <<retryCount, conn, channel, initRes, seqKind, seqPc, seqResult,
                 seqAttempts, seqFails, seqEntered, delay>>
  /\ UNCHANGED <<brokerUp, connState, nConn, handlers, workVars>>

\* init() called again by some caller, after an earlier init() has returned
\* and while no sequence runs: connectWithRetry() starts with retryCount as
\* it is
Init_again ==
  /\ Running /\ initRes \in {"true", "false"} /\ seqPc = "idle"
  /\ nConn < MaxConns
  /\ initRes' = "pending"
  /\ UNCHANGED retryCount
  /\ EnterLoop("init")
  /\ UNCHANGED <<isConnected, conn, channel, seqFails, seqEntered,
                 brokerVars, workVars, apiVars>>

\* Some caller publishes through the gateway; cyclic: the content cannot be
\* serialised, JSON.stringify throws inside the try block before
\* sendToQueue is called
PublishCall ==
  /\ Running /\ initRes \in {"true", "false"} /\ nPub < MaxMsgs
  /\ \E full \in BOOLEAN, cyclic \in BOOLEAN :
       LET p == IF cyclic /\ ~NotConnected THEN "threw" ELSE publish(full) IN
       /\ lastPub' = p
       /\ queue' = Enqueue(p, "job")
       /\ lastOp' = [op |-> "publish", connected |-> ~NotConnected,
                     io |-> p \in {"sent", "full"} \/ (p = "threw" /\ ~cyclic),
                     res |-> p = "sent", raised |-> FALSE]
  /\ nPub' = nPub + 1
  /\ UNCHANGED <<supVars, brokerVars, consumerState, consumerChan, inflight, rec,
                 route, timers, sendLog, nSched, dbFaulted, nForeign, acks, nacks,
                 requeued, crashed>>

\* await this.conn.createChannel() rejects although the connection is open
\* (the broker refuses the channel): the catch block counts the failure and
\* leaves this.conn as it is, open
ChannelRefused ==
  /\ Running /\ seqPc = "channel" /\ connState[conn] = "open"
  /\ nConn < MaxConns
  /\ AttemptFailed
  /\ UNCHANGED <<conn, brokerUp, connState, nConn, workVars, apiVars>>

\* close() called by some caller while no sequence runs.
\*   channel held: channel.close(), which rejects on a channel that is
\*     closed already: the catch block logs, nothing else is done;
\*     else this.channel = null
\*   conn held: conn.close(), which rejects on a closed connection (catch);
\*     else the connection closes and emits "close": its handler, where
\*     registered, sets isConnected = false and calls reconnect(), which
\*     finds isConnected false, resets retryCount and starts the cool-down;
\*     this.conn = null
\*   this.isConnected = false
Close ==
  /\ Running /\ initRes \in {"true", "false"} /\ seqPc = "idle"
  /\ nConn < MaxConns
  /\ LET chanThrows == channel # NoConn /\ channel \notin chanOpen
         connThrows == ~chanThrows /\ conn # NoConn /\ connState[conn] # "open"
         closes == ~chanThrows /\ conn # NoConn /\ connState[conn] = "open"
         notified == closes /\ conn \in handlers
     IN
     /\ lastOp' = [op |-> "close", connected |-> isConnected,
                   io |-> channel # NoConn \/ conn # NoConn,
                   res |-> ~chanThrows /\ ~connThrows, raised |-> FALSE]
     /\ channel' = IF chanThrows THEN channel ELSE NoConn
     /\ conn' = IF chanThrows \/ connThrows THEN conn ELSE NoConn
     /\ chanOpen' = IF chanThrows THEN chanOpen
                    ELSE IF closes THEN chanOpen \ {channel, conn}
                    ELSE chanOpen \ {channel}
     /\ connState' = IF closes THEN [connState EXCEPT ![conn] = "closed"]
                                ELSE connState
     /\ isConnected' = IF chanThrows \/ connThrows THEN isConnected ELSE FALSE
     /\ IF notified
          THEN /\ retryCount' = 0
               /\ seqKind' = "reconnect"
               /\ seqPc' = "cooldown"
               /\ delay' = RECONNECT_DELAY
               /\ seqAttempts' = 0 /\ seqFails' = 0 /\ seqEntered' = 0
               /\ UNCHANGED seqResult
          ELSE UNCHANGED <<retryCount, seqKind, seqPc, seqResult, seqAttempts,
                           seqFails, seqEntered, delay>>
  /\ UNCHANGED <<initRes, brokerUp, nConn, handlers, workVars>>

Next ==
  \/ BrokerUp
  \/ BrokerDown
  \/ Init_call
  \/ ConnectSettles
  \/ ChannelSettles
  \/ BackoffDone
  \/ CooldownDone
  \/ SeqReturns
  \/ \E c \in ConnIds : ConnectionLost(c)
  \/ StartConsumer
  \/ QueueRoute
  \/ \E p \in Payloads : ForeignPublish(p)
  \/ Deliver
  \/ \E i \in 1..MaxMsgs : FindSettles(i)
  \/ \E i \in 1..MaxMsgs : SendSettles(i)
  \/ \E i \in 1..MaxMsgs : SaveSettles(i)
  \/ \E i \in 1..MaxMsgs : UpdateSettles(i)
  \/ TimerFires

Spec == Init /\ [][Next]_vars

\* The supervisor and the broker alone, with the scheduling the runtime
\* guarantees: a pending await or timer of the connection sequence settles.
NextSup ==
  \/ BrokerUp
  \/ BrokerDown
  \/ Init_call
  \/ ConnectSettles
  \/ ChannelSettles
  \/ BackoffDone
  \/ CooldownDone
  \/ SeqReturns
  \/ \E c \in ConnIds : ConnectionLost(c)

\* The worker on a connection that stays: start-up, one job, its retries
\* and the broker's redeliveries
NextWorker ==
  \/ BrokerUp
  \/ Init_call
  \/ ConnectSettles
  \/ ChannelSettles
  \/ BackoffDone
  \/ SeqReturns
  \/ StartConsumer
  \/ QueueRoute
  \/ Redeliver
  \/ Deliver
  \/ \E i \in 1..(MaxMsgs + MaxForeign) : FindSettles(i)
  \/ \E i \in 1..(MaxMsgs + MaxForeign) : SendSettles(i)
  \/ \E i \in 1..(MaxMsgs + MaxForeign) : SaveSettles(i)
  \/ \E i \in 1..(MaxMsgs + MaxForeign) : UpdateSettles(i)
  \/ TimerFires

SpecWorker == Init /\ [][NextWorker]_vars

\* The worker on a connection that stays and a broker that delivers every
\* message once: one job and its re-publishes, one publish call more than
\* the three a job is meant to take
RetryMsgs == MaxMsgs + 1

\* TimerFires with the run cut at RetryMsgs publish calls
TimerFiresRetry ==
  /\ Running /\ Ripe > 0 /\ nPub < RetryMsgs
  /\ \E full \in BOOLEAN :
       LET p == publish(full) IN
       /\ lastPub' = p
       /\ queue' = Enqueue(p, "job")
  /\ timers' = timers - 1
  /\ nPub' = nPub + 1
  /\ UNCHANGED <<supVars, brokerVars, consumerState, consumerChan, inflight, rec,
                 route, sendLog, nSched, dbFaulted, nForeign, acks, nacks, requeued,
                 crashed>>
  /\ UNCHANGED apiVars

NextRetry ==
  \/ BrokerUp
  \/ Init_call
  \/ ConnectSettles
  \/ ChannelSettles
  \/ BackoffDone
  \/ SeqReturns
  \/ StartConsumer
  \/ QueueRoute
  \/ Deliver
  \/ \E i \in 1..RetryMsgs : FindSettles(i)
  \/ \E i \in 1..RetryMsgs : SendSettles(i)
  \/ \E i \in 1..RetryMsgs : SaveSettles(i)
  \/ \E i \in 1..RetryMsgs : UpdateSettles(i)
  \/ TimerFiresRetry

SpecRetry == Init /\ [][NextRetry]_vars

\* The email service with payloads that name no record: start-up, the
\* route, connection losses, and job payloads put on the queue by others
NextMissing ==
  \/ BrokerUp
  \/ Init_call
  \/ ConnectSettles
  \/ ChannelSettles
  \/ BackoffDone
  \/ CooldownDone
  \/ SeqReturns
  \/ \E c \in ConnIds : ConnectionLost(c)
  \/ StartConsumer
  \/ QueueRoute
  \/ OrphanPublish
  \/ Deliver
  \/ \E i \in 1..MaxMsgs : FindSettles(i)
  \/ \E i \in 1..MaxMsgs : SendSettles(i)
  \/ \E i \in 1..MaxMsgs : SaveSettles(i)
  \/ \E i \in 1..MaxMsgs : UpdateSettles(i)
  \/ TimerFires

SpecMissing == Init /\ [][NextMissing]_vars

\* The gateway object under the calls of its callers (health route, a
\* second init(), queue declarations, publishes, close()), without the
\* worker
NextApi ==
  \/ BrokerUp
  \/ BrokerDown
  \/ Init_call
  \/ ConnectSettles
  \/ ChannelSettles
  \/ BackoffDone
  \/ CooldownDone
  \/ SeqReturns
  \/ \E c \in ConnIds : ConnectionLost(c)
  \/ Init_again
  \/ HealthRoute
  \/ AssertQueueCall
  \/ PublishCall
  \/ Close
  \/ ChannelRefused
  \/ StartConsumer

SpecApi == Init /\ [][NextApi]_vars

SpecSupFair ==
  /\ Init /\ [][NextSup]_vars
  /\ WF_vars(Init_call) /\ WF_vars(ConnectSettles) /\ WF_vars(ChannelSettles)
  /\ WF_vars(BackoffDone) /\ WF_vars(CooldownDone) /\ WF_vars(SeqReturns)

\* Sanity of the model's own bookkeeping
TypeOK ==
  /\ isConnected \in BOOLEAN /\ retryCount \in 0..MAX_RETRIES
  /\ conn \in 0..MaxConns /\ channel \in 0..MaxConns
  /\ nConn \in 0..MaxConns
  /\ seqPc = "connect" => nConn < MaxConns
  /\ nPub <= MaxMsgs /\ Ripe >= 0
  /\ isConnected => seqPc \in {"done", "idle"}
  /\ initRes = "pending" <=> seqKind = "init"
  /\ consumerChan \in chanOpen => channel = consumerChan
  /\ delay \in {0, RECONNECT_DELAY, RETRY_DELAY}

\* ------------------------------------------------------------------ claims
NoSends == Len(sendLog)
SendsOk == Cardinality({k \in 1..Len(sendLog) : sendLog[k]})
JobsQueued == Cardinality({k \in 1..Len(queue) : queue[k] = "job"})
NeverLost == \A c \in ConnIds : connState[c] # "closed"

\* C1: init() on a fresh supervisor whose first k attempts (k in 0..4) fail
\* and whose attempt k+1 succeeds returns true; isConnected is not true
\* before that attempt succeeds, it is set exactly once, no attempt follows
\* the successful one, and retryCount is 0 afterwards.  init() does not give
\* up before the 5th failure.
C1_InitConnectsOnce ==
  initRes = "pending" =>
    /\ seqKind = "init"
    /\ seqPc # "done" => ~isConnected /\ seqEntered = 0
    /\ seqEntered > 0 => seqPc = "done" /\ seqResult
    /\ seqPc = "done" /\ seqFails < MAX_RETRIES => seqResult
    /\ seqPc = "done" /\ seqResult =>
         /\ seqFails \in 0..(MAX_RETRIES - 1)
         /\ seqAttempts = seqFails + 1
         /\ seqEntered = 1
         /\ retryCount = 0

C1_Witness == initRes = "pending" /\ seqPc = "done" /\ seqResult /\ seqFails = 4

\* C2: a sequence whose 5 attempts all fail stops with the 5th (never a 6th
\* attempt), returns false and leaves isConnected = false and
\* retryCount = 5; from then on the supervisor makes no attempt on its own.
C2_State ==
  /\ seqAttempts <= MAX_RETRIES /\ seqFails <= MAX_RETRIES
  /\ seqFails = MAX_RETRIES =>
       /\ seqPc = "done" /\ ~seqResult
       /\ seqAttempts = MAX_RETRIES
       /\ retryCount = MAX_RETRIES
  /\ retryCount = MAX_RETRIES =>
       /\ ~isConnected /\ ~seqResult
       /\ seqPc = "done" \/ (seqPc = "idle" /\ seqKind = "none")

C2_Step ==
  retryCount = MAX_RETRIES =>
    /\ UNCHANGED <<isConnected, retryCount, conn, channel, nConn>>
    /\ seqPc' \in {"done", "idle"} /\ seqAttempts' \in {seqAttempts, 0}
    /\ initRes' # initRes => initRes' = "false"

C2_DegradedAfterFive == []C2_State /\ [][C2_Step]_vars

C2_Witness ==
  /\ initRes = "false" /\ retryCount = MAX_RETRIES /\ seqPc = "idle"
  /\ brokerUp /\ consumerState = "failed"

\* C3: a publish call made while the supervisor is not connected returns
\* false, does not call the channel and leaves email_queue as it was (the
\* message is dropped, not kept for later); the route answers 500.
PublishStep ==
  \/ timers' = timers - 1
  \/ route = "none" /\ route' # "none" /\ nPub' = nPub + 1

C3_Step ==
  PublishStep /\ NotConnected =>
    /\ queue' = queue
    /\ lastPub' = "refused"
    /\ route' # route => route' = "500"

C3_DropsWhenNotConnected == [][C3_Step]_vars

C3_Witness ==
  /\ lastPub = "refused" /\ route = "500" /\ rec.status = "failed"
  /\ nConn > 1 /\ isConnected /\ JobsQueued = 0

\* C4 (as claimed): a job whose send succeeded ends sent with sentAt set, and
\* over all deliveries of the job at most one send succeeds.
C4_AtMostOneSuccessfulSend ==
  /\ SendsOk <= 1
  /\ SendsOk = 1 /\ Len(inflight) = 0 => rec.status = "sent" /\ rec.sentAt

\* C5: all sends fail, the supervisor stays connected, no store operation
\* raises, the broker makes no copy: retryCount is 1, 2, 3 after the first,
\* second, third delivery; a re-publish is scheduled after the 1st and the
\* 2nd failure only; after the 3rd the record is failed with retryCount = 3
\* and nothing is pending or scheduled any more.
C5_Pre ==
  /\ SendsOk = 0 /\ ~dbFaulted /\ nForeign["job"] = 0 /\ NeverLost /\ route = "202"

C5_ThreeFailuresThenTerminal ==
  C5_Pre =>
    /\ NoSends <= MaxSendAttempts
    /\ Len(inflight) <= 1
    /\ nSched = (IF NoSends < 2 THEN NoSends ELSE 2)
    /\ IF \E k \in 1..Len(inflight) : inflight[k].pc = "save"
         THEN rec.retryCount = NoSends - 1 /\ inflight[1].lrc = NoSends
         ELSE rec.retryCount = NoSends
    /\ NoSends = MaxSendAttempts =>
         /\ timers = 0 /\ JobsQueued = 0
         /\ Len(inflight) = 0 => rec.status = "failed" /\ rec.retryCount = 3

C5_Witness ==
  /\ C5_Pre /\ NoSends = 3 /\ Len(inflight) = 0
  /\ rec.status = "failed" /\ rec.retryCount = 3 /\ nSched = 2

\* C6: published once while connected, the send fails on the first two
\* deliveries and succeeds on the third, the supervisor stays connected and
\* no store operation raises: no fourth send happens, and once the third
\* handler has returned the record is sent with retryCount = 3 and no
\* re-publish is pending.
C6_Pre ==
  /\ NoSends >= 3 /\ ~sendLog[1] /\ ~sendLog[2] /\ sendLog[3]
  /\ ~dbFaulted /\ nForeign["job"] = 0 /\ NeverLost /\ route = "202"

C6_FailFailSucceed ==
  C6_Pre =>
    /\ NoSends = 3 /\ SendsOk = 1
    /\ timers = 0 /\ JobsQueued = 0 /\ nSched = 2
    /\ Len(inflight) = 0 =>
         rec.status = "sent" /\ rec.retryCount = 3 /\ rec.sentAt

C6_Witness == C6_Pre /\ Len(inflight) = 0 /\ rec.status = "sent" /\ rec.retryCount = 3

\* C7: when the consume callback takes a message that is not JSON it does
\* not invoke the handler, issues no ack and exactly one nack with
\* requeue = false; the consumer stays registered on its open channel and
\* the process keeps running.
TakesMessage == nPub' = nPub /\ Len(queue) > 0 /\ queue' = Tail(queue)

C7_Step ==
  TakesMessage /\ Head(queue) = "malformed" =>
    /\ acks' = acks /\ nacks' = nacks + 1 /\ requeued' = requeued
    /\ UNCHANGED <<inflight, sendLog, rec, timers>>
    /\ consumerState' = "registered" /\ consumerChan' \in chanOpen' /\ ~crashed'

C7_MalformedRejected == [][C7_Step]_vars

C7_Witness ==
  /\ nForeign["malformed"] = 1 /\ nForeign["null"] = 0
  /\ nacks = 1 /\ requeued = 0 /\ ~crashed

\* C8 (as claimed): for every message delivered exactly one of ack / nack
\* is issued, ack iff the handler was invoked and did not raise, nack with
\* requeue = false otherwise.
HandlerResolved == Len(inflight') < Len(inflight)

CallbackEnds == (TakesMessage /\ Head(queue) # "job") \/ HandlerResolved

AckXorNack ==
  /\ acks' + nacks' = acks + nacks + 1
  /\ acks' = acks + 1 <=> HandlerResolved
  /\ requeued' = requeued

C8_OriginalStep == CallbackEnds => AckXorNack

C8_Step ==
  CallbackEnds =>
    IF channel \in chanOpen
      THEN AckXorNack /\ ~crashed'
      ELSE acks' = acks /\ nacks' = nacks /\ crashed'

C9_Step ==
  (isConnected /\ \E c \in handlers : connState[c] = "open" /\ connState'[c] = "closed")
    => /\ ~isConnected' /\ retryCount' = 0
       /\ seqKind' = "reconnect" /\ seqPc' = "cooldown" /\ seqAttempts' = 0

C9_Original ==
  /\ [][C9_Step]_vars
  /\ <>[]brokerUp => [](seqKind = "reconnect" => <>isConnected)

\* C9 (amended): after a close notification the supervisor is Disconnected
\* and a fresh sequence starts with retryCount = 0; the sequence ends
\* Connected if the broker accepts one of its at most 5 attempts, else
\* Degraded after the 5th failure.
C9_ReconnectSequence ==
  /\ [][C9_Step]_vars
  /\ [](seqKind = "reconnect" /\ seqPc = "done" =>
          (isConnected /\ seqResult /\ retryCount = 0)
          \/ (~isConnected /\ ~seqResult /\ seqFails = MAX_RETRIES))
  /\ (seqKind = "reconnect" /\ seqPc = "cooldown") ~> (seqKind = "reconnect" /\ seqPc = "done")

C9_Witness == seqKind = "reconnect" /\ seqPc = "done" /\ isConnected /\ seqFails > 0

\* C10 (as claimed): no job that was dispatched at least once is left
\* unsent with retryCount < 3 while no handler runs for it, no re-publish is
\* pending and no message of it is in the queue.
C10_NoStuckJob ==
  ~ /\ NoSends > 0 /\ rec.status # "sent" /\ rec.retryCount < MaxSendAttempts
    /\ Len(inflight) = 0 /\ timers = 0 /\ JobsQueued = 0

\* C11 (as claimed): no connection or channel failure crashes the process:
\* the handler of unhandled rejections (process.exit(1)) is never reached,
\* also when a message handler finishes after its channel was closed.
C11_NeverCrashes == ~crashed

\* C13 (as claimed): for one consume registration at most one handler
\* invocation is in progress at any time.
C13_OneHandlerAtATime == Len(inflight) <= 1

\* C12: init(), assertQueue(), publish() and consume() never raise to their
\* caller; a failure of the transport (refused connect, closed channel,
\* refused declaration, content that cannot be serialised) makes them return
\* false, and assertQueue / publish / consume return false without calling
\* the channel when the supervisor is not connected.
C12_State ==
  /\ ~lastOp.raised /\ ~crashed
  /\ lastOp.op \in {"assertQueue", "publish"} /\ ~lastOp.connected =>
       ~lastOp.io /\ ~lastOp.res

C12_Step ==
  /\ lastOp' # lastOp /\ lastOp'.op \in {"assertQueue", "publish"} =>
       /\ lastOp'.connected = ~NotConnected
       /\ channel \notin chanOpen => ~lastOp'.res
       /\ lastOp'.op = "publish" => (lastOp'.res <=> lastPub' = "sent")
  /\ consumerState = "none" /\ consumerState' # "none" =>
       /\ NotConnected => consumerState' = "failed" /\ chanOpen' = chanOpen
       /\ channel \notin chanOpen => consumerState' = "failed"
  /\ initRes = "pending" /\ initRes' # "pending" =>
       /\ initRes' \in {"true", "false"}
       /\ initRes' = "true" <=> seqResult

C12_GatewayNeverRaises == []C12_State /\ [][C12_Step]_vars

C12_Witness ==
  /\ lastOp.op = "assertQueue" /\ lastOp.connected /\ lastOp.io /\ ~lastOp.res
  /\ lastPub = "threw" /\ consumerState = "failed" /\ initRes = "true"

\* C14 (as claimed): in POST /emails/queue the route answers 202 exactly
\* when publish returned true; when publish returned false it answers 500
\* and the record it created is left with status failed.
RouteAnswers == route = "none" /\ route' # "none" /\ nPub' = nPub + 1

C14_OriginalStep ==
  RouteAnswers =>
    /\ route' = "202" <=> lastPub' = "sent"
    /\ lastPub' # "sent" => route' = "500" /\ rec'.status = "failed"

C14_Original == [][C14_OriginalStep]_vars

\* C14 (amended): the same, the record being left failed when the store
\* accepts the save of the new status; when that save raises the route still
\* answers 500 and the record stays queued.
C14_Step ==
  RouteAnswers =>
    /\ route' = "202" <=> lastPub' = "sent"
    /\ lastPub' # "sent" =>
         /\ route' = "500"
         /\ rec'.status = (IF dbFaulted' THEN "queued" ELSE "failed")
    /\ route' = "202" => rec'.status = "queued" /\ ~dbFaulted'

C14_FailedPublishNotQueued == [][C14_Step]_vars

C14_Witness ==
  /\ route = "500" /\ nPub = 1 /\ lastPub = "full" /\ rec.exists
  /\ rec.status = "failed" /\ ~dbFaulted /\ JobsQueued = 1

\* C15 (as claimed): a healthCheck() call made while the supervisor is not
\* connected returns false without calling the channel, also when the stale
\* connection and channel objects are still held.
C15_NoIoWhenNotConnected ==
  lastOp.op = "healthCheck" /\ ~lastOp.connected => ~lastOp.io /\ ~lastOp.res

\* C16 (as claimed): init() is idempotent: called on a connected supervisor
\* it opens no second connection and registers no second set of close/error
\* handlers; the supervisor keeps one connection/channel pair.
OpenConns == {c \in ConnIds : connState[c] = "open"}

C16_InitIdempotent ==
  /\ Cardinality(OpenConns) <= 1
  /\ Cardinality(OpenConns \cap handlers) <= 1

\* C17 (as claimed): every sequence, started by init() or by reconnect,
\* makes its first attempt with the counter at 0 and has made at least 1 and
\* at most 5 attempts when it ends, also an init() called after an earlier
\* sequence ended Degraded.
C17_BudgetPerSequence ==
  /\ seqPc = "connect" /\ seqAttempts = 1 => retryCount = 0
  /\ seqPc = "done" => seqAttempts \in 1..MAX_RETRIES

\* C18 (as claimed): the connection state changes only by
\* Disconnected->Connecting, Connecting->Connected, Connecting->Degraded
\* (Connecting->Connecting changes nothing here) and Connected->Disconnected
\* on a broker close/error; healthCheck(), assertQueue() and publish() never
\* change it.
ConnectionState ==
  IF isConnected THEN "Connected"
  ELSE IF seqPc \in {"connect", "channel", "backoff"} THEN "Connecting"
  ELSE IF retryCount >= MAX_RETRIES THEN "Degraded"
  ELSE "Disconnected"

BrokerCloses == \E c \in ConnIds : connState[c] = "open" /\ connState'[c] = "closed"

C18_Step ==
  ConnectionState' # ConnectionState =>
    /\ lastOp' = lastOp
    /\ \/ <<ConnectionState, ConnectionState'>> \in
            {<<"Disconnected", "Connecting">>, <<"Connecting", "Connected">>,
             <<"Connecting", "Degraded">>}
       \/ /\ ConnectionState = "Connected" /\ ConnectionState' = "Disconnected"
          /\ BrokerCloses

C18_StateMachineOnly == [][C18_Step]_vars

\* C19 (as claimed): for every payload that parses as JSON, null included,
\* the handler completes normally, so on an open channel the message is
\* acknowledged and not rejected; and a handler that ends in its catch block
\* leaves the record failed with retryCount increased by exactly 1 when the
\* store accepts the update.
ParsedCallbackEnds ==
  (TakesMessage /\ Head(queue) = "null") \/ HandlerResolved

C19_Step ==
  /\ ParsedCallbackEnds /\ channel \in chanOpen =>
       acks' = acks + 1 /\ nacks' = nacks
  /\ /\ HandlerResolved /\ rec' # rec
     /\ \A k \in 1..Len(inflight) : inflight[k].pc = "update"
     => rec'.status = "failed" /\ rec'.retryCount = rec.retryCount + 1

C19_HandlerNeverRaises == [][C19_Step]_vars

\* C20 (as claimed): once the record is failed with retryCount >= 3 no
\* handler that reads it goes on to a send operation: no handler is sending
\* or saving after having read a failed record whose retryCount was 3 or
\* more.
C20_TerminalFailed ==
  \A k \in 1..Len(inflight) :
    inflight[k].pc \in {"send", "save"} =>
      ~(inflight[k].lst = "failed" /\ inflight[k].lrc > MaxSendAttempts)

\* C21 (as claimed): the stored retryCount never decreases, and every
\* handler that reached the send operation leaves the stored retryCount
\* exactly 1 above what it was, whatever deliveries of the same job overlap
\* and however the save and the fallback update end.
Dispatched(i) == inflight' = Remove(inflight, i) /\ inflight[i].lrc > 0

C21_Step ==
  /\ rec'.retryCount >= rec.retryCount
  /\ \A i \in 1..Len(inflight) :
       Dispatched(i) => rec'.retryCount = rec.retryCount + 1

C21_RetryCountMonotone == [][C21_Step]_vars

\* C22 (as claimed): when the record named by a delivered payload does not
\* exist the handler invokes no send, schedules no re-publish, creates or
\* updates no record, and the message is acknowledged, not rejected.
MissingDropped ==
  /\ UNCHANGED <<rec, sendLog, timers, nSched>>
  /\ nacks' = nacks

C22_OriginalStep ==
  ~rec.exists /\ HandlerResolved => MissingDropped /\ acks' = acks + 1

C22_State ==
  ~rec.exists => \A k \in 1..Len(inflight) : inflight[k].pc \in {"find", "update"}

C22_Step ==
  ~rec.exists /\ HandlerResolved =>
    /\ MissingDropped
    /\ IF channel \in chanOpen
         THEN acks' = acks + 1 /\ ~crashed'
         ELSE acks' = acks /\ crashed'

C24_ConsumerSurvivesReconnect ==
  consumerState = "registered" /\ isConnected /\ channel \in chanOpen
    => consumerChan \in chanOpen

\* C25 (as claimed): status sent is absorbing: once the stored record is
\* sent, no step of the worker stores another status for it or changes its
\* retryCount.
C25_Step ==
  rec.status = "sent" => rec'.status = "sent" /\ rec'.retryCount = rec.retryCount

C25_SentAbsorbing == [][C25_Step]_vars

\* C26 (as claimed): after close() has completed the supervisor stays
\* disconnected: no reconnect sequence is started by the close notification,
\* no connection attempt is made, isConnected stays false and conn and
\* channel stay null.
C26_ClosedStaysClosed ==
  lastOp.op = "close" /\ lastOp.res =>
    /\ ~isConnected /\ conn = NoConn /\ channel = NoConn
    /\ seqKind = "none" /\ seqPc = "idle"

\* C27 (as claimed): the supervisor holds at most one open connection: no
\* connection opened by an earlier attempt is still open once a later
\* attempt has opened another one (connections are numbered in the order
\* the broker accepted them).
C27_OneOpenConnection ==
  \A c \in ConnIds : c < nConn => connState[c] # "open"

\* C28 (as claimed): for a job published once by a caller and not
\* duplicated by the broker the send operation is invoked at most 3 times,
\* whatever the sends return and however the save and the fallback update
\* end.
C28_AtMostThreeSends ==
  nForeign["job"] = 0 /\ route # "none" => Len(sendLog) <= 3

\* C29 (as claimed): healthCheck() of a Connected supervisor whose
\* connection and channel are open returns true and leaves the supervisor
\* Connected, also when the exclusive queue "health-check-temp" is held by
\* the connection of another service.
HealthChecked == lastOp' # lastOp /\ lastOp'.op = "healthCheck"

C29_Step ==
  /\ HealthChecked
  /\ isConnected /\ channel \in chanOpen /\ conn # NoConn /\ connState[conn] = "open"
  => lastOp'.res /\ isConnected'

C29_HealthyWhenConnected == [][C29_Step]_vars

\* C30 (as claimed): whenever isConnected is true, channel is an open
\* channel created on the connection held in conn, and that connection is
\* open.
C30_ConnectedMeansUsable ==
  isConnected =>
    /\ conn # NoConn /\ connState[conn] = "open"
    /\ channel = conn /\ channel \in chanOpen

====
